---------------------------- MODULE Spec2Model ----------------------------
(***************************************************************************)
(* Study Notes Revision Tracker (study_notes_pyqt.py): the note store, the *)
(* persisted file, the revision scheduler, the table rendering and the     *)
(* notification poller, as one state machine.                              *)
(*                                                                         *)
(* A date string "YYYY-MM-DD" is modelled by its three numeric fields      *)
(* <<y, m, d>>; a datetime.date by its proleptic Gregorian ordinal, as     *)
(* date.toordinal() gives it.  strptime and strftime convert between the   *)
(* two.  Text of the line edit is a sequence of one-character strings.     *)
(***************************************************************************)
EXTENDS Integers, Sequences, FiniteSets, TLC

(***************************************************************************)
(* Bounds of the model.                                                    *)
(***************************************************************************)
\* most notes the store may hold before add_note is no longer tried
MaxNotes == 2
\* most clicks on Done/Undo buttons in one run
MaxToggles == 1
\* most failing writes of the data file in one run
MaxFaults == 1

(***************************************************************************)
(* Calendar arithmetic of datetime (strptime, strftime, timedelta).        *)
(***************************************************************************)
IsLeap(y) == (y % 4 = 0) /\ ((y % 100 # 0) \/ (y % 400 = 0))

DaysInMonth(y, m) ==
    IF m = 2 THEN (IF IsLeap(y) THEN 29 ELSE 28)
    ELSE IF m \in {4, 6, 9, 11} THEN 30 ELSE 31

DaysBeforeYear(y) ==
    LET p == y - 1 IN p * 365 + (p \div 4) - (p \div 100) + (p \div 400)

\* _DAYS_BEFORE_MONTH of datetime, for months 1..12
DAYS_BEFORE_MONTH == <<0, 31, 59, 90, 120, 151, 181, 212, 243, 273, 304, 334>>

DaysBeforeMonth(y, m) ==
    DAYS_BEFORE_MONTH[m] + (IF m > 2 /\ IsLeap(y) THEN 1 ELSE 0)

ymd2ord(y, m, d) == DaysBeforeYear(y) + DaysBeforeMonth(y, m) + d

\* datetime.date.max, 9999-12-31
MaxOrdinal == ymd2ord(9999, 12, 31)

\* date.fromordinal as _ord2ymd computes it
ord2ymd(ord) ==
    LET n0   == ord - 1
        n400 == n0 \div 146097
        r400 == n0 % 146097
        n100 == r400 \div 36524
        r100 == r400 % 36524
        n4   == r100 \div 1461
        r4   == r100 % 1461
        n1   == r4 \div 365
        n    == r4 % 365
        year == n400 * 400 + 1 + n100 * 100 + n4 * 4 + n1
    IN  IF n1 = 4 \/ n100 = 4
        THEN <<year - 1, 12, 31>>
        ELSE LET month0 == (n + 50) \div 32
                 prec0  == DaysBeforeMonth(year, month0)
                 month  == IF prec0 > n THEN month0 - 1 ELSE month0
                 prec   == IF prec0 > n
                           THEN prec0 - DaysInMonth(year, month0 - 1)
                           ELSE prec0
             IN  <<year, month, n - prec + 1>>

\* datetime.strptime(s, "%Y-%m-%d") accepts s: a four-digit year from 0001,
\* a month and a day of that month
Parses(s) ==
    /\ s[1] \in 1..9999
    /\ s[2] \in 1..12
    /\ s[3] \in 1..DaysInMonth(s[1], s[2])

\* datetime.strptime(s, "%Y-%m-%d"), for s that parses
strptime(s) == ymd2ord(s[1], s[2], s[3])

\* d.strftime("%Y-%m-%d")
strftime(ord) == ord2ymd(ord)

(***************************************************************************)
(* Revision scheduler.                                                     *)
(***************************************************************************)
\* the keys of the revisions dict, in insertion order
Labels == <<"24H", "3Days", "1Week", "1Month">>

LabelSet == {Labels[i] : i \in 1..Len(Labels)}

\* timedelta(days=...) of each key
DELTA_DAYS == ("24H" :> 1) @@ ("3Days" :> 3) @@ ("1Week" :> 7) @@ ("1Month" :> 30)

\* d + timedelta(days): the mutant forgets the offset of the key
shifted_mutant(d, key) == d + 1

\* d + timedelta(days=DELTA_DAYS[key])
shifted(d, key) == d + DELTA_DAYS[key]

\* make_revision_dates(completion_date_str): the dict, or the exception raised
make_revision_dates(completion_date_str) ==
    IF ~Parses(completion_date_str)
    THEN [raised |-> "ValueError"]
    ELSE LET d == strptime(completion_date_str) IN
         IF \E k \in LabelSet : shifted(d, k) > MaxOrdinal
         THEN [raised |-> "OverflowError"]
         ELSE [raised |-> "none",
               value  |-> [k \in LabelSet |->
                             [date |-> strftime(shifted(d, k)), completed |-> FALSE]]]


(***************************************************************************)
(* Values of the form, of the data file and of the clock.                  *)
(***************************************************************************)
\* ("EMPM01", "Workplace Information Management"), one of SUBJECT_OPTIONS
SUBJECT_OPTIONS == << <<"EMPM01", "Workplace Information Management">> >>

\* currentData() of the subject combo: "" (as <<>>) or "code|name" (as <<code, name>>)
SubjectData == {<<>>} \cup {SUBJECT_OPTIONS[i] : i \in 1..Len(SUBJECT_OPTIONS)}

\* texts the user may have typed in the note code line edit
CodeTexts == {<<" ">>, <<" ", "A", " ">>}

\* dates the QDateEdit may hold (its range ends at 9999-12-31)
QDates == {<<2025, 1, 30>>, <<9999, 12, 15>>}

\* the day the process starts on: 2025-01-31
Day0 == ymd2ord(2025, 1, 31)

\* the instants at which the wall clock is read during the run: midnight of
\* the first day and midnight of the next day
Instants == {[day |-> Day0, ms |-> 0], [day |-> Day0 + 1, ms |-> 0]}

\* a note as add_note builds it
Note(id, name, code, cdate, revs) ==
    [id |-> id, subjectName |-> name, noteCode |-> code,
     completionDate |-> cdate, revisions |-> revs]

\* a note written by an earlier run: completed 2024-12-30, its 24H revision done
OldNote ==
    LET r == make_revision_dates(<<2024, 12, 30>>).value IN
    Note(<<ymd2ord(2024, 12, 30) - ymd2ord(1970, 1, 1), 5>>,
         "Workplace Information Management", <<"B">>, <<2024, 12, 30>>,
         [r EXCEPT !["24H"].completed = TRUE])

\* a note object of the file that lacks "revisions" and the other fields
BrokenNote == [id |-> <<0, 7>>]

Absent == [kind |-> "absent", value |-> <<>>]

\* text that json.load rejects (also what a write that fails midway leaves)
Garbage == [kind |-> "text", value |-> <<>>]

\* a file holding the JSON array v
JsonFile(v) == [kind |-> "json", value |-> v]

\* json.dump(notes, f): the mutant writes the list without its last note
json_dump_mutant(ns) ==
    JsonFile(IF ns = <<>> THEN ns ELSE SubSeq(ns, 1, Len(ns) - 1))

\* json.dump(notes, f, indent=2, ensure_ascii=False): the file as a JSON array
json_dump(ns) == JsonFile(ns)

\* the data file when the process starts
InitFiles == {Absent, Garbage, JsonFile(<<>>), JsonFile(<<OldNote>>),
              JsonFile(<<BrokenNote>>)}

\* load_notes(): [] when the file is absent or json.load raises, else what it parses
load_notes(f) == IF f.kind = "json" THEN f.value ELSE <<>>

\* save_notes(notes) on a disk that behaves as `disk`: the file afterwards.
\* open(.., "w") raising leaves the file as it was; a write raising after the
\* open leaves it truncated
save_notes(ns, old, disk) ==
    IF disk = "ok" THEN json_dump(ns)
    ELSE IF disk = "open_fails" THEN old
    ELSE Garbage

\* how the disk may behave at a save, given the failures so far
DiskOutcomes(failed) ==
    IF failed < MaxFaults THEN {"ok", "open_fails", "write_fails"} ELSE {"ok"}

\* int(datetime.now().timestamp() * 1000): the integer days * 86400000 + ms,
\* held as <<days, ms>> (days since 1970-01-01, ms after midnight) because it
\* is wider than the 32-bit integers of the model checker
timestamp_ms(clock) == <<clock.day - ymd2ord(1970, 1, 1), clock.ms>>

(***************************************************************************)
(* Rendering: _update_stats, _is_all_done, _fill_table.                    *)
(***************************************************************************)
\* a note with every field the rendering reads
WellFormed(n) ==
    DOMAIN n = {"id", "subjectName", "noteCode", "completionDate", "revisions"}

RECURSIVE SumSeq(_)
SumSeq(q) == IF q = <<>> THEN 0 ELSE Head(q) + SumSeq(Tail(q))

CountDone(n, flag) == Cardinality({k \in LabelSet : n.revisions[k].completed = flag})

\* the mutant counts the completed revisions as pending and the pending ones
\* as completed
update_stats_mutant(ns) ==
    [total     |-> Len(ns),
     pending   |-> SumSeq([i \in 1..Len(ns) |-> CountDone(ns[i], TRUE)]),
     completed |-> SumSeq([i \in 1..Len(ns) |-> CountDone(ns[i], FALSE)])]

\* _update_stats: the three labels
update_stats(ns) ==
    [total     |-> Len(ns),
     pending   |-> SumSeq([i \in 1..Len(ns) |-> CountDone(ns[i], FALSE)]),
     completed |-> SumSeq([i \in 1..Len(ns) |-> CountDone(ns[i], TRUE)])]

\* _is_all_done(note)
is_all_done(n) == \A k \in LabelSet : n.revisions[k].completed

\* the style of a revision cell: the mutant looks at the date first
cell_style_mutant(rev, today) ==
    LET rev_date == strptime(rev.date) IN
    IF rev_date < today THEN "red"
    ELSE IF rev.completed THEN "green"
    ELSE IF rev_date = today THEN "orange"
    ELSE "plain"

\* the style _fill_table gives a revision cell: green (completed), red
\* (overdue), orange (due today), or none set (upcoming)
cell_style(rev, today) ==
    LET rev_date == strptime(rev.date) IN
    IF rev.completed THEN "green"
    ELSE IF rev_date < today THEN "red"
    ELSE IF rev_date = today THEN "orange"
    ELSE "plain"

\* the filter_fn refresh_table passes for each of the three tables
filter_fn(n, tab) ==
    IF tab = "all" THEN TRUE
    ELSE IF tab = "pending" THEN ~is_all_done(n)
    ELSE is_all_done(n)

RECURSIVE SelectNotes(_, _)
SelectNotes(ns, tab) ==
    IF ns = <<>> THEN <<>>
    ELSE IF filter_fn(Head(ns), tab) THEN <<Head(ns)>> \o SelectNotes(Tail(ns), tab)
    ELSE SelectNotes(Tail(ns), tab)

\* _fill_table(table, filter_fn): a row per note kept, with the note id its
\* buttons carry and the style of its four revision cells
fill_table(ns, tab, today) ==
    LET rows == SelectNotes(ns, tab) IN
    [i \in 1..Len(rows) |->
        [note_id |-> rows[i].id,
         cells   |-> [k \in LabelSet |-> cell_style(rows[i].revisions[k], today)]]]

\* the note ids of the rows _fill_table gives a table
row_ids(ns, tab) ==
    LET rows == SelectNotes(ns, tab) IN [i \in 1..Len(rows) |-> rows[i].id]

\* the three tables refresh_table fills: table_all with its cells; of
\* table_pending and table_alldone, whose rows are built by the same code
\* from the same notes, the note ids of the rows
fill_tables(ns, today) ==
    [all     |-> fill_table(ns, "all", today),
     pending |-> row_ids(ns, "pending"),
     alldone |-> row_ids(ns, "alldone")]

(***************************************************************************)
(* State.                                                                  *)
(***************************************************************************)
VARIABLES
    pc,                     \* "start", "running", "failed" (__init__ raised), "aborted"
    notes,                  \* self.notes
    file,                   \* DATA_FILE
    now,                    \* the wall clock: [day, ms]
    enable_notifications,   \* enable_notifications_cb.isChecked()
    toaster,                \* TRUE when win10toast was imported (toaster is not None)
    stats,                  \* the three stats labels
    tables,                 \* table_all, table_pending, table_alldone
    toasts,                 \* the show_toast calls of the latest step
    dialog,                 \* the warning box the latest step showed
    exc,                    \* the exception the latest step raised
    faults,                 \* writes of the data file that failed so far
    toggles,                \* clicks on Done/Undo buttons so far
    probe                   \* input and result of a direct call of the scheduler

vars == <<pc, notes, file, now, enable_notifications, toaster, stats, tables,
          toasts, dialog, exc, faults, toggles, probe>>

NoProbe == [input |-> <<>>, output |-> [raised |-> "unset"]]

EmptyTables == [all |-> <<>>, pending |-> <<>>, alldone |-> <<>>]

\* the process before MainWindow() is constructed, with the data file one of
\* files, win10toast imported or not as toasters says, and failed_writes of
\* the MaxFaults failing writes already spent
InitWith(files, toasters, failed_writes) ==
    /\ pc = "start"
    /\ notes = <<>>
    /\ file \in files
    /\ now = [day |-> Day0, ms |-> 0]
    /\ enable_notifications = TRUE
    /\ toaster \in toasters
    /\ stats = [total |-> 0, pending |-> 0, completed |-> 0]
    /\ tables = EmptyTables
    /\ toasts = <<>>
    /\ dialog = "none"
    /\ exc = "none"
    /\ faults = failed_writes
    /\ toggles = 0

Init == InitWith(InitFiles, BOOLEAN, 0) /\ probe = NoProbe

\* a host without win10toast, whose disk does not fail
InitStore ==
    InitWith({Absent, JsonFile(<<OldNote>>)}, {FALSE}, MaxFaults) /\ probe = NoProbe

\* a host without win10toast, whose disk may fail
InitFaulty ==
    InitWith({Absent, JsonFile(<<OldNote>>)}, {FALSE}, 0) /\ probe = NoProbe

\* a host whose disk does not fail
InitView ==
    InitWith({Absent, JsonFile(<<OldNote>>)}, BOOLEAN, MaxFaults) /\ probe = NoProbe

(***************************************************************************)
(* Helpers of the slots.                                                   *)
(***************************************************************************)
IsSpace(c) == c = " "

RECURSIVE lstrip(_)
lstrip(t) == IF t # <<>> /\ IsSpace(Head(t)) THEN lstrip(Tail(t)) ELSE t

RECURSIVE rstrip(_)
rstrip(t) ==
    IF t # <<>> /\ IsSpace(t[Len(t)]) THEN rstrip(SubSeq(t, 1, Len(t) - 1)) ELSE t

\* the mutant keeps the text as typed
strip_mutant(t) == t

\* str.strip()
strip(t) == rstrip(lstrip(t))

\* QDate.toString("yyyy-MM-dd")
toString(qdate) == qdate

\* the first index of notes whose id is note_id, 0 when there is none
RECURSIVE index_of(_, _, _)
index_of(ns, note_id, i) ==
    IF i > Len(ns) THEN 0
    ELSE IF ns[i].id = note_id THEN i
    ELSE index_of(ns, note_id, i + 1)

\* the mutant rebuilds the revision record, its date taken from the note
flip_redate_mutant(n, key) ==
    [n EXCEPT !.revisions[key] =
        [date |-> n.completionDate, completed |-> ~@.completed]]

\* the mutant marks the revision completed instead of negating the flag
flip_mutant(n, key) == [n EXCEPT !.revisions[key].completed = TRUE]

\* n["revisions"][key]["completed"] = not n["revisions"][key].get("completed", False)
flip(n, key) == [n EXCEPT !.revisions[key].completed = ~@]

\* the mutant drops the first note whatever its id
without_mutant(ns, note_id) == IF ns = <<>> THEN ns ELSE Tail(ns)

\* [n for n in self.notes if n["id"] != note_id]
RECURSIVE without(_, _)
without(ns, note_id) ==
    IF ns = <<>> THEN <<>>
    ELSE IF Head(ns).id # note_id THEN <<Head(ns)>> \o without(Tail(ns), note_id)
    ELSE without(Tail(ns), note_id)

\* the note ids the Done/Undo and Delete buttons of the tables carry
ButtonIds == {tables.all[i].note_id : i \in 1..Len(tables.all)}

\* a step of the running process ends with it still running: its memory, the
\* file, and what the step showed
GoOn(ns, f, st, tb, dlg, e, failed, clicked) ==
    /\ pc' = "running"
    /\ notes' = ns
    /\ file' = f
    /\ stats' = st
    /\ tables' = tb
    /\ dialog' = dlg
    /\ exc' = e
    /\ faults' = failed
    /\ toggles' = clicked
    /\ toasts' = <<>>
    /\ UNCHANGED <<now, enable_notifications, toaster, probe>>

\* the process is aborted on exception e: its memory is gone, the file stays
Abort(f, e) ==
    /\ pc' = "aborted"
    /\ notes' = <<>>
    /\ file' = f
    /\ stats' = [total |-> 0, pending |-> 0, completed |-> 0]
    /\ tables' = EmptyTables
    /\ dialog' = "none"
    /\ exc' = e
    /\ faults' = MaxFaults
    /\ toggles' = MaxToggles
    /\ toasts' = <<>>
    /\ enable_notifications' = TRUE
    /\ UNCHANGED <<now, toaster, probe>>

\* exception e leaves a slot that has made the memory ns and the file f:
\* PyQt5 from 5.5 on aborts the process, older ones print the traceback and
\* go on, the tables not refreshed
Raise(e, ns, f, failed, clicked) ==
    \E survive \in BOOLEAN :
        IF survive
        THEN GoOn(ns, f, stats, tables, "none", e, failed, clicked)
        ELSE Abort(f, e)

\* save_notes(self.notes); self.refresh_table() at the end of a slot
save_and_refresh(ns, clicked) ==
    \E disk \in DiskOutcomes(faults) :
        IF disk = "ok"
        THEN GoOn(ns, save_notes(ns, file, disk), update_stats(ns),
                  fill_tables(ns, now.day), "none", "none", faults, clicked)
        ELSE Raise("OSError", ns, save_notes(ns, file, disk), faults + 1, clicked)

(***************************************************************************)
(* MainWindow.__init__: load_notes, _build_ui, refresh_table.              *)
(***************************************************************************)
MainWindow_init ==
    /\ pc = "start"
    /\ LET loaded == load_notes(file) IN
       /\ notes' = loaded
       /\ IF \A i \in 1..Len(loaded) : WellFormed(loaded[i])
          THEN /\ pc' = "running"
               /\ exc' = "none"
               /\ stats' = update_stats(loaded)
               /\ tables' = fill_tables(loaded, now.day)
          ELSE \* _update_stats reads n["revisions"] of a note without it
               /\ pc' = "failed"
               /\ exc' = "KeyError"
               /\ UNCHANGED <<stats, tables>>
    /\ UNCHANGED <<file, now, enable_notifications, toaster, toasts, dialog,
                   faults, toggles, probe>>

(***************************************************************************)
(* The slots.                                                              *)
(***************************************************************************)
\* the step of a slot that returns early, having shown the warning dlg
Rejected(dlg) == GoOn(notes, file, stats, tables, dlg, "none", faults, toggles)

\* add_note with the form holding data, text and qdate
add_note(data, text, qdate) ==
    /\ pc = "running"
    /\ Len(notes) < MaxNotes
    /\ IF data = <<>>
       THEN Rejected("Missing subject")
       ELSE LET name      == data[2]
                note_code == strip(text)
            IN
            IF note_code = <<>>
            THEN Rejected("Missing code")
            ELSE LET completion_date == toString(qdate)
                     revisions       == make_revision_dates(completion_date)
                 IN
                 IF revisions.raised # "none"
                 THEN Raise(revisions.raised, notes, file, faults, toggles)
                 ELSE LET new_note == Note(timestamp_ms(now), name, note_code,
                                           completion_date, revisions.value)
                      IN  save_and_refresh(Append(notes, new_note), toggles)

\* _toggle_revision, sent by the button of note note_id and revision key
toggle_revision(note_id, key) ==
    /\ pc = "running"
    /\ toggles < MaxToggles
    /\ LET i == index_of(notes, note_id, 1) IN
       IF i # 0
       THEN save_and_refresh([notes EXCEPT ![i] = flip(@, key)], toggles + 1)
       ELSE GoOn(notes, file, stats, tables, "none", "none", faults, toggles + 1)

\* _delete_note, sent by the Delete button of note note_id; ret is the answer
\* to the confirmation question
delete_note(note_id, ret) ==
    /\ pc = "running"
    /\ IF ret = "Yes"
       THEN save_and_refresh(without(notes, note_id), toggles)
       ELSE Rejected("none")

\* refresh_table, from a Refresh button
refresh_table ==
    /\ pc = "running"
    /\ stats' = update_stats(notes)
    /\ tables' = fill_tables(notes, now.day)
    /\ toasts' = <<>>
    /\ dialog' = "none"
    /\ exc' = "none"
    /\ UNCHANGED <<pc, notes, file, now, enable_notifications, toaster, faults,
                   toggles, probe>>

\* whether _check_due_revisions notifies for rev: the mutant also notifies
\* for completed revisions
is_due_mutant(rev, today) ==
    LET rev_date == strptime(rev.date) IN
    rev_date = today \/ rev_date - today = 1

\* not completed, and rev_date == now or (rev_date - now).days == 1
is_due(rev, today) ==
    /\ ~rev.completed
    /\ LET rev_date == strptime(rev.date) IN
       rev_date = today \/ rev_date - today = 1

\* the show_toast calls for one note, key by key
RECURSIVE note_toasts(_, _, _)
note_toasts(n, keys, today) ==
    IF keys = <<>> THEN <<>>
    ELSE (IF is_due(n.revisions[Head(keys)], today)
          THEN << [noteCode |-> n.noteCode, key |-> Head(keys),
                   date |-> n.revisions[Head(keys)].date] >>
          ELSE <<>>) \o note_toasts(n, Tail(keys), today)

\* the show_toast calls of one run of the loops of _check_due_revisions
RECURSIVE due_toasts(_, _)
due_toasts(ns, today) ==
    IF ns = <<>> THEN <<>>
    ELSE note_toasts(Head(ns), Labels, today) \o due_toasts(Tail(ns), today)

\* _check_due_revisions, on a timer tick
check_due_revisions ==
    /\ pc = "running"
    /\ toasts' = IF ~enable_notifications \/ ~toaster
                 THEN <<>>
                 ELSE due_toasts(notes, now.day)
    /\ dialog' = "none"
    /\ exc' = "none"
    /\ UNCHANGED <<pc, notes, file, now, enable_notifications, toaster, stats,
                   tables, faults, toggles, probe>>

\* the user ticks or unticks "Enable Windows notifications"
set_notifications ==
    /\ pc = "running"
    /\ enable_notifications' = ~enable_notifications
    /\ toasts' = <<>>
    /\ dialog' = "none"
    /\ exc' = "none"
    /\ UNCHANGED <<pc, notes, file, now, toaster, stats, tables, faults, toggles,
                   probe>>

\* time passes: the wall clock shows a later instant
clock_advance ==
    /\ pc = "running"
    /\ \E t \in Instants :
          /\ (t.day > now.day) \/ (t.day = now.day /\ t.ms > now.ms)
          /\ now' = t
    /\ toasts' = <<>>
    /\ dialog' = "none"
    /\ exc' = "none"
    /\ UNCHANGED <<pc, notes, file, enable_notifications, toaster, stats, tables,
                   faults, toggles, probe>>

AddNote ==
    \E data \in SubjectData, text \in CodeTexts, qdate \in QDates :
        add_note(data, text, qdate)

ToggleRevision ==
    \E note_id \in ButtonIds, key \in LabelSet : toggle_revision(note_id, key)

DeleteNote ==
    \E note_id \in ButtonIds, ret \in {"Yes", "No"} : delete_note(note_id, ret)

Next ==
    \/ MainWindow_init
    \/ AddNote
    \/ ToggleRevision
    \/ DeleteNote
    \/ refresh_table
    \/ check_due_revisions
    \/ set_notifications
    \/ clock_advance

Spec == Init /\ [][Next]_vars

\* the slots of the store and the clock, without the poller and its checkbox
NextStore ==
    \/ MainWindow_init
    \/ AddNote
    \/ ToggleRevision
    \/ DeleteNote
    \/ refresh_table
    \/ clock_advance

SpecStore == InitStore /\ [][NextStore]_vars

\* add_note with the form filled in: a subject chosen, a note code typed
AddFilled ==
    \E i \in 1..Len(SUBJECT_OPTIONS), qdate \in QDates :
        add_note(SUBJECT_OPTIONS[i], <<" ", "A", " ">>, qdate)

\* the slots of the store on a form that is filled in, and the clock
NextFaulty ==
    \/ MainWindow_init
    \/ AddFilled
    \/ ToggleRevision
    \/ DeleteNote
    \/ refresh_table
    \/ clock_advance

SpecFaulty == InitFaulty /\ [][NextFaulty]_vars

SpecView == InitView /\ [][Next]_vars

(***************************************************************************)
(* The scheduler called directly, on date strings valid and not.           *)
(***************************************************************************)
SchedYears == {1752, 1900, 2000, 2024, 2025, 9999}

SchedDays == {0, 1, 2, 10, 22, 25, 26, 27, 28, 29, 30, 31, 32}

\* the strings "YYYY-MM-DD" make_revision_dates is called with
SchedInputs == {<<y, m, d>> : y \in SchedYears, m \in 0..13, d \in SchedDays}

InitSched ==
    /\ InitWith({Absent}, {FALSE}, MaxFaults)
    /\ \E s \in SchedInputs : probe = [input |-> s, output |-> [raised |-> "unset"]]

\* make_revision_dates(probe.input)
schedule ==
    /\ pc = "start"
    /\ probe.input # <<>>
    /\ probe.output.raised = "unset"
    /\ probe' = [probe EXCEPT !.output = make_revision_dates(probe.input)]
    /\ UNCHANGED <<pc, notes, file, now, enable_notifications, toaster, stats,
                   tables, toasts, dialog, exc, faults, toggles>>

NextSched == schedule

SpecSched == InitSched /\ [][NextSched]_vars

(***************************************************************************)
(* Vocabulary of the properties: calendar dates counted day by day on the  *)
(* date strings, without the ordinals the program computes with.           *)
(***************************************************************************)
\* the day after the date string s
NextDay(s) ==
    IF s[3] < DaysInMonth(s[1], s[2]) THEN <<s[1], s[2], s[3] + 1>>
    ELSE IF s[2] < 12 THEN <<s[1], s[2] + 1, 1>>
    ELSE <<s[1] + 1, 1, 1>>

\* the date string n calendar days after s
RECURSIVE AddDays(_, _)
AddDays(s, n) == IF n = 0 THEN s ELSE AddDays(NextDay(s), n - 1)

\* a is a date strictly before b
DateBefore(a, b) ==
    \/ a[1] < b[1]
    \/ a[1] = b[1] /\ a[2] < b[2]
    \/ a[1] = b[1] /\ a[2] = b[2] /\ a[3] < b[3]

\* the date string of the day the clock c shows
TodayOf(c) == AddDays(<<2025, 1, 31>>, c.day - Day0)

FourLabels == {"24H", "3Days", "1Week", "1Month"}

\* the days after completion at which each revision is due
DaysAfter(k) ==
    IF k = "24H" THEN 1 ELSE IF k = "3Days" THEN 3 ELSE IF k = "1Week" THEN 7 ELSE 30

\* the notes of ns whose id is not id, in their order
Others(ns, id) == SelectSeq(ns, LAMBDA n : n.id # id)

\* the file holds exactly the collection ns
Holds(f, ns) == f.kind = "json" /\ f.value = ns

\* the file holds a note with this id
FileHasId(f, id) == f.kind = "json" /\ \E j \in 1..Len(f.value) : f.value[j].id = id

(***************************************************************************)
(* C1: no two notes of the in-memory collection have the same id, also     *)
(* when two notes are added while the clock shows the same millisecond.    *)
(* Stated as the claim states it; the code breaks it.                      *)
(***************************************************************************)
C1_UniqueIds ==
    pc = "running" =>
        \A i, j \in 1..Len(notes) : i # j => notes[i].id # notes[j].id

(***************************************************************************)
(* C2, as amended: a step of add_note, _toggle_revision or _delete_note    *)
(* that changes the in-memory collection leaves the file holding exactly   *)
(* the collection when save_notes completed; when save_notes raised, the   *)
(* change stays in memory and the file is as before the step or truncated. *)
(***************************************************************************)
C2_Persisted ==
    [][(pc = "running" /\ pc' = "running" /\ notes' # notes) =>
          IF exc' = "none"
          THEN Holds(file', notes')
          ELSE exc' = "OSError" /\ file' \in {file, Garbage}]_vars

\* C2 as stated: the file holds the collection after every such step, a
\* failing write included
C2_Original ==
    [][(pc = "running" /\ pc' = "running" /\ notes' # notes) =>
          Holds(file', notes')]_vars

\* a second note was added and saved
C2_Witness ==
    /\ pc = "running"
    /\ exc = "none"
    /\ Len(notes) = 2
    /\ Holds(file, notes)

(***************************************************************************)
(* C3: add_note with no subject selected, with a note code that is empty   *)
(* after stripping, or with a date make_revision_dates raises on, leaves   *)
(* the file as it was, and the collection too (as long as the process     *)
(* lives: an exception leaving the slot may abort it).                     *)
(***************************************************************************)
C3_Refused(data, text, qdate) ==
    \/ data = <<>>
    \/ \A i \in 1..Len(text) : text[i] = " "
    \/ ~Parses(qdate)
    \/ DateBefore(<<9999, 12, 1>>, qdate)

C3_RejectedAddChangesNothing ==
    [][\A data \in SubjectData, text \in CodeTexts, qdate \in QDates :
          (C3_Refused(data, text, qdate) /\ add_note(data, text, qdate)) =>
              /\ file' = file
              /\ pc' = "running" => notes' = notes]_vars

\* the store holds a note and an add with a blank note code was just refused
C3_Witness ==
    /\ pc = "running"
    /\ dialog = "Missing code"
    /\ Len(notes) = 1
    /\ Holds(file, notes)

(***************************************************************************)
(* C4, as amended: for every date string D that parses and is no later     *)
(* than 9999-12-01, make_revision_dates(D) returns exactly the four        *)
(* checkpoints 24H, 3Days, 1Week, 1Month, dated 1, 3, 7 and 30 calendar    *)
(* days after D and not completed (2025-01-10 gives 2025-01-11,            *)
(* 2025-01-13, 2025-01-17, 2025-02-09); for a later D it raises            *)
(* OverflowError, and for a string that does not parse ValueError.         *)
(***************************************************************************)
\* the result r is the schedule of D
C4_IsScheduleOf(r, D) ==
    /\ r.raised = "none"
    /\ DOMAIN r.value = FourLabels
    /\ \A k \in FourLabels :
          r.value[k] = [date |-> AddDays(D, DaysAfter(k)), completed |-> FALSE]

C4_Schedule ==
    probe.output.raised # "unset" =>
        /\ IF ~Parses(probe.input)
           THEN probe.output.raised = "ValueError"
           ELSE IF DateBefore(<<9999, 12, 1>>, probe.input)
           THEN probe.output.raised = "OverflowError"
           ELSE C4_IsScheduleOf(probe.output, probe.input)
        /\ probe.input = <<2025, 1, 10>> =>
              /\ probe.output.value["24H"].date = <<2025, 1, 11>>
              /\ probe.output.value["3Days"].date = <<2025, 1, 13>>
              /\ probe.output.value["1Week"].date = <<2025, 1, 17>>
              /\ probe.output.value["1Month"].date = <<2025, 2, 9>>

\* C4 as stated: every date that parses gets its four checkpoints
C4_Original ==
    (probe.output.raised # "unset" /\ Parses(probe.input)) =>
        C4_IsScheduleOf(probe.output, probe.input)

\* the schedule of a date whose last checkpoint falls in the next year
C4_Witness ==
    /\ probe.input = <<2024, 12, 25>>
    /\ probe.output.raised = "none"
    /\ probe.output.value["1Month"].date = <<2025, 1, 24>>

(***************************************************************************)
(* C5: every note of the collection has exactly the four checkpoint        *)
(* labels, each dated 1, 3, 7 and 30 days after the note's completion      *)
(* date, whatever was added, toggled or deleted since.                     *)
(***************************************************************************)
C5_FourCheckpoints ==
    pc = "running" =>
        \A i \in 1..Len(notes) :
            /\ DOMAIN notes[i].revisions = FourLabels
            /\ \A k \in FourLabels :
                  notes[i].revisions[k].date =
                      AddDays(notes[i].completionDate, DaysAfter(k))

\* a note added in this run has had a revision toggled
C5_Witness ==
    /\ pc = "running"
    /\ \E i \in 1..Len(notes) :
          /\ notes[i].completionDate = <<2025, 1, 30>>
          /\ notes[i].revisions["1Month"].completed

(***************************************************************************)
(* C6: _toggle_revision(note_id, key) on an id of the store negates the    *)
(* completed flag of that one checkpoint of one note with that id and      *)
(* leaves every other checkpoint, field and note and the order as they     *)
(* were; on an id not in the store it changes neither the collection nor   *)
(* the file.                                                               *)
(***************************************************************************)
\* n2 is n1 with the completed flag of checkpoint key negated, all else equal
C6_Flipped(n1, n2, key) ==
    /\ DOMAIN n2 = DOMAIN n1
    /\ n2.id = n1.id
    /\ n2.subjectName = n1.subjectName
    /\ n2.noteCode = n1.noteCode
    /\ n2.completionDate = n1.completionDate
    /\ DOMAIN n2.revisions = DOMAIN n1.revisions
    /\ \A k \in DOMAIN n1.revisions :
          /\ n2.revisions[k].date = n1.revisions[k].date
          /\ n2.revisions[k].completed =
                IF k = key THEN ~n1.revisions[k].completed
                ELSE n1.revisions[k].completed

C6_ToggleFrame ==
    [][\A note_id \in ButtonIds, key \in LabelSet :
          (toggle_revision(note_id, key) /\ pc' = "running") =>
              IF \E i \in 1..Len(notes) : notes[i].id = note_id
              THEN /\ Len(notes') = Len(notes)
                   /\ \E i \in 1..Len(notes) :
                         /\ notes[i].id = note_id
                         /\ C6_Flipped(notes[i], notes'[i], key)
                         /\ \A j \in 1..Len(notes) : j # i => notes'[j] = notes[j]
              ELSE notes' = notes /\ file' = file]_vars

\* the Undo button of the loaded note was clicked: its 24H revision is
\* pending again, on disk too
C6_Witness ==
    /\ pc = "running"
    /\ toggles > 0
    /\ \E i \in 1..Len(notes) :
          /\ notes[i].completionDate = <<2024, 12, 30>>
          /\ ~notes[i].revisions["24H"].completed
    /\ Holds(file, notes)

C8_StatusOf(rev, today) ==
    IF rev.completed THEN "green"
    ELSE IF DateBefore(rev.date, today) THEN "red"
    ELSE IF rev.date = today THEN "orange"
    ELSE "plain"

\* table_all shows the notes ns as they are on the day the clock c shows
C8_Shown(tb, ns, c) ==
    /\ Len(tb.all) = Len(ns)
    /\ \A i \in 1..Len(ns), k \in FourLabels :
          tb.all[i].cells[k] = C8_StatusOf(ns[i].revisions[k], TodayOf(c))

C8_DisplayStatus ==
    [][/\ refresh_table =>
             /\ C8_Shown(tables', notes, now)
             /\ notes' = notes
             /\ file' = file
       /\ (pc' = "running" /\ tables' # tables) => C8_Shown(tables', notes', now')]_vars

\* the table shows a completed revision of a past date as Completed, next to
\* an overdue, a due-today and an upcoming one
C8_Witness ==
    /\ pc = "running"
    /\ Len(tables.all) = Len(notes)
    /\ \E i \in 1..Len(notes), k \in FourLabels :
          /\ notes[i].revisions[k].completed
          /\ DateBefore(notes[i].revisions[k].date, TodayOf(now))
          /\ tables.all[i].cells[k] = "green"
    /\ \A st \in {"red", "orange", "plain"} :
          \E i \in 1..Len(notes), k \in FourLabels :
              /\ ~notes[i].revisions[k].completed
              /\ tables.all[i].cells[k] = st

(***************************************************************************)
(* C9: a tick of _check_due_revisions with notifications enabled and       *)
(* win10toast available shows exactly one toast for each revision of each  *)
(* note that is not completed and whose date is today or the day after,    *)
(* and none for any other revision; a tick with notifications disabled or  *)
(* win10toast unavailable shows none; a tick changes neither the           *)
(* collection nor the file.                                                *)
(***************************************************************************)
C9_Due(rev, today) ==
    /\ ~rev.completed
    /\ rev.date = today \/ rev.date = NextDay(today)

\* the revisions of ns that are due, as <<index of the note, key>>
C9_DueSet(ns, today) ==
    {p \in (1..Len(ns)) \X FourLabels : C9_Due(ns[p[1]].revisions[p[2]], today)}

\* what the toast for the revision p of ns says
C9_Body(ns, p) ==
    [noteCode |-> ns[p[1]].noteCode, key |-> p[2],
     date |-> ns[p[1]].revisions[p[2]].date]

\* ts has one toast for each due revision of ns and no other toast
C9_OneEach(ts, ns, today) ==
    LET due == C9_DueSet(ns, today) IN
    /\ Len(ts) = Cardinality(due)
    /\ \A p \in due :
          Cardinality({j \in 1..Len(ts) : ts[j] = C9_Body(ns, p)})
              = Cardinality({q \in due : C9_Body(ns, q) = C9_Body(ns, p)})

C9_Notifications ==
    [][check_due_revisions =>
          /\ notes' = notes
          /\ file' = file
          /\ IF enable_notifications /\ toaster
             THEN C9_OneEach(toasts', notes, TodayOf(now))
             ELSE toasts' = <<>>]_vars

\* a tick has shown a toast, and none for a completed revision that is due
C9_Witness ==
    /\ pc = "running"
    /\ toasts # <<>>
    /\ Len(toasts) = Cardinality(C9_DueSet(notes, TodayOf(now)))
    /\ \E i \in 1..Len(notes), k \in FourLabels :
          /\ notes[i].revisions[k].completed
          /\ notes[i].revisions[k].date \in {TodayOf(now), NextDay(TodayOf(now))}

(***************************************************************************)
(* C10: when the data file is absent, is not JSON, or is JSON whose notes  *)
(* lack fields, MainWindow() starts with an empty collection instead of    *)
(* failing.  Stated as the claim states it; the code breaks it for notes   *)
(* that lack fields.                                                       *)
(***************************************************************************)
\* the file is a JSON array of notes with every field
C10_Usable(f) ==
    /\ f.kind = "json"
    /\ \A j \in 1..Len(f.value) : WellFormed(f.value[j])

C10_Recovers ==
    [][(pc = "start" /\ ~C10_Usable(file)) =>
          (pc' = "running" /\ notes' = <<>>)]_vars

(***************************************************************************)
(* C11: whenever _update_stats runs (in refresh_table, and at the end of   *)
(* every add_note, _toggle_revision and _delete_note whose save            *)
(* completed), the three labels are the number of notes, the number of     *)
(* revisions whose completed flag is false and the number of those whose   *)
(* flag is true, over all notes: one new note gives (1, 4, 0), and         *)
(* toggling one of its revisions then gives (1, 3, 1).                     *)
(***************************************************************************)
\* the revisions of ns whose completed flag is flag, as <<index of the note, key>>
C11_Flagged(ns, flag) ==
    {p \in (1..Len(ns)) \X FourLabels : ns[p[1]].revisions[p[2]].completed = flag}

C11_Counts(ns) ==
    [total     |-> Len(ns),
     pending   |-> Cardinality(C11_Flagged(ns, FALSE)),
     completed |-> Cardinality(C11_Flagged(ns, TRUE))]

\* ns is one note none of whose revisions is completed
C11_OneNew(ns) == Len(ns) = 1 /\ C11_Flagged(ns, TRUE) = {}

C11_Stats ==
    [][(/\ pc' = "running"
        /\ \/ refresh_table
           \/ stats' # stats
           \/ notes' # notes /\ exc' = "none") =>
          /\ stats' = C11_Counts(notes')
          /\ C11_OneNew(notes') =>
                stats' = [total |-> 1, pending |-> 4, completed |-> 0]
          /\ (C11_OneNew(notes) /\ ToggleRevision /\ notes' # notes) =>
                stats' = [total |-> 1, pending |-> 3, completed |-> 1]]_vars

\* the one note added in this run has had one revision toggled: (1, 3, 1)
C11_Witness ==
    /\ pc = "running"
    /\ toggles > 0
    /\ Len(notes) = 1
    /\ notes[1].completionDate = <<2025, 1, 30>>
    /\ Cardinality(C11_Flagged(notes, TRUE)) = 1
    /\ stats = [total |-> 1, pending |-> 3, completed |-> 1]

=============================================================================
